---- MODULE Spec2Model ----
(***************************************************************************)
(* Model of the A2A registry client core (sdk/typescript/src/client.ts):   *)
(* the authentication state of one A2ARegClient instance, the request      *)
(* pipeline (ensureAuthenticated -> dispatch -> handleResponse) and the     *)
(* public operations built on it, run by asynchronous callers against a    *)
(* server that may answer anything.                                        *)
(*                                                                         *)
(* A caller's operation is cut at its await points: the synchronous part   *)
(* of a call up to the first fetch or the first resolved await (Call), the *)
(* arrival of the token response (TokenResponse), the continuation after   *)
(* `await this.ensureAuthenticated()` that builds the headers and          *)
(* dispatches (Dispatch), and the arrival of the response (Response,       *)
(* TransportFailure).  Between two such steps any other caller, setApiKey  *)
(* or the clock may act.                                                   *)
(*                                                                         *)
(* The validator (validateAgent) and the card converter                    *)
(* (convertToCardSpec, agentCardSpecFromDict) are functions of their       *)
(* argument; SpecConv applies them to every agent of a bounded family,     *)
(* next to the Go SDK's ValidateAgent and convertToCardSpec.               *)
(***************************************************************************)
EXTENDS Integers, Sequences, FiniteSets, TLC

\* ------------------------------------------------------------------ bounds
NumCallers == 2
MaxTokenReqs == 3
MaxNow == 4600
MaxSchemes == 2
MaxSkills == 2

\* ------------------------------------------------------- program constants
DefaultExpiresIn == 3600
RefreshMargin == 60

\* --------------------------------------------------------- modelling values
StartNow == 1000
Undefined == -1
NoToken == 0
NoKey == ""
ServerAgentId == "agent-123"

Callers == 1..NumCallers
SeqCallers == {1}

TickSteps == {1800}
\* expires_in of a token answer: absent (0), shorter than the refresh margin,
\* longer than it, and one that puts the expiry exactly one clock step ahead.
ExpiresInValues == {0, 30, 90, 1860}

Truthy(n) == n # Undefined /\ n # 0

\* The client's fields (client.ts 31-38); the clock; the number of requests
\* sent to the token endpoint so far; whether an authenticate() has succeeded
\* so far; and each caller's position in its operation, with what it has sent
\* and received.
\* subject is the agent handed to the validator or to the card converter, and
\* outcome what the function applied last has returned.
VARIABLES apiKey, clientId, clientSecret, accessToken, tokenExpiresAt,
          now, tokenRequests, authenticated, call, subject, outcome

vars == <<apiKey, clientId, clientSecret, accessToken, tokenExpiresAt,
          now, tokenRequests, authenticated, call, subject, outcome>>

conv == <<subject, outcome>>

client == <<apiKey, clientId, clientSecret, accessToken, tokenExpiresAt>>

\* ------------------------------------------------------------ error taxonomy
\* exceptions.ts: AuthenticationError, ValidationError and NotFoundError
\* extend A2AError; the class hierarchy has no other member.
TaxonomyKinds == {"A2AError", "AuthenticationError", "ValidationError", "NotFoundError"}

IsA2AError(kind) == kind \in TaxonomyKinds

\* A result of a request or of an operation: kind is "value" or the class of
\* the thrown error ("TypeError" is the runtime's, not the taxonomy's); val
\* tags a returned value, id is the agent id it carries, msg the source of an
\* error's message.
Result(kind, val, id, msg) == [kind |-> kind, val |-> val, id |-> id, msg |-> msg]
Value(val, id) == Result("value", val, id, "")
Error(kind, msg) == Result(kind, "", "", msg)
NoResult == Result("none", "", "", "")

\* ------------------------------------------------------------------ agents
\* An agent as the caller passes it (models.ts 78-97).  A string field that is
\* absent or empty is ""; hasName says whether the object has the key 'name'
\* at all; a capability flag is "true", "false" or "unset".
NoCard == [name |-> "", description |-> "", version |-> "", present |-> FALSE]
Card(n, d, v) == [name |-> n, description |-> d, version |-> v, present |-> TRUE]
Scheme(t, n) == [type |-> t, name |-> n]
Skill(id, tags) ==
    [id |-> id, name |-> "skill", description |-> "does", hasTags |-> TRUE, tags |-> tags]
Flags(s, p, h, x) ==
    [streaming |-> s, pushNotifications |-> p, stateTransitionHistory |-> h,
     supportsAuthenticatedExtendedCard |-> x]
NoCapabilities == [present |-> FALSE, flags |-> Flags("unset", "unset", "unset", "unset")]
Capabilities(flags) == [present |-> TRUE, flags |-> flags]
MkAgent(n, d, v, p, schemes, card) ==
    [hasName |-> TRUE, name |-> n, description |-> d, version |-> v, provider |-> p,
     auth_schemes |-> schemes, agent_card |-> card,
     skills |-> <<>>, capabilities |-> NoCapabilities, location_url |-> ""]

validTypes == {"apiKey", "oauth2", "jwt", "mTLS", "bearer"}

\* agentFromDict (models.ts 100-125) on a plain object: the fields are copied,
\* the provider defaults to "unknown" (the objects here carry no publisherId)
\* and the result has every key.
agentFromRecord(agent) ==
    [agent EXCEPT !.hasName = TRUE,
                  !.provider = IF agent.provider = "" THEN "unknown" ELSE agent.provider]

\* The messages one auth scheme contributes (forEach body, client.ts 372-380).
SchemeErrors(scheme, i) ==
    (IF scheme.type = "" THEN <<[text |-> "Auth scheme missing required field: type", at |-> i]>> ELSE <<>>)
    \o (IF scheme.type # "" /\ scheme.type \notin validTypes
        THEN <<[text |-> "Auth scheme has invalid type", at |-> i]>> ELSE <<>>)

RECURSIVE AllSchemeErrors(_, _)
AllSchemeErrors(schemes, i) ==
    IF i > Len(schemes) THEN <<>>
    ELSE SchemeErrors(schemes[i], i - 1) \o AllSchemeErrors(schemes, i + 1)

Msg(text) == <<[text |-> text, at |-> -1]>>

\* validateAgent without the checks of the agent card.
validateAgent_skipsCard(agent) ==
    LET agentObj == IF agent.hasName THEN agent ELSE agentFromRecord(agent) IN
    (IF agentObj.name = "" THEN Msg("Agent name is required") ELSE <<>>)
    \o (IF agentObj.description = "" THEN Msg("Agent description is required") ELSE <<>>)
    \o (IF agentObj.version = "" THEN Msg("Agent version is required") ELSE <<>>)
    \o (IF agentObj.provider = "" THEN Msg("Agent provider is required") ELSE <<>>)
    \o AllSchemeErrors(agentObj.auth_schemes, 1)

\* validateAgent (client.ts 353-397): an object without the key 'name' goes
\* through agentFromDict first.
validateAgent(agent) ==
    LET agentObj == IF agent.hasName THEN agent ELSE agentFromRecord(agent) IN
    (IF agentObj.name = "" THEN Msg("Agent name is required") ELSE <<>>)
    \o (IF agentObj.description = "" THEN Msg("Agent description is required") ELSE <<>>)
    \o (IF agentObj.version = "" THEN Msg("Agent version is required") ELSE <<>>)
    \o (IF agentObj.provider = "" THEN Msg("Agent provider is required") ELSE <<>>)
    \o AllSchemeErrors(agentObj.auth_schemes, 1)
    \o (IF agentObj.agent_card.present
        THEN (IF agentObj.agent_card.name = "" THEN Msg("Agent card name is required") ELSE <<>>)
             \o (IF agentObj.agent_card.description = "" THEN Msg("Agent card description is required") ELSE <<>>)
             \o (IF agentObj.agent_card.version = "" THEN Msg("Agent card version is required") ELSE <<>>)
        ELSE <<>>)

\* The Go SDK's ValidateAgent (client.go 417-455), on an Agent struct: it
\* returns at the first violation; the result is that error, or none.
RECURSIVE FirstSchemeError(_, _)
FirstSchemeError(schemes, i) ==
    IF i > Len(schemes) THEN <<>>
    ELSE IF schemes[i].type = ""
         THEN <<[text |-> "Auth scheme missing required field: type", at |-> i - 1]>>
    ELSE IF schemes[i].type \notin validTypes
         THEN <<[text |-> "Auth scheme has invalid type", at |-> i - 1]>>
    ELSE FirstSchemeError(schemes, i + 1)

ValidateAgent(agent) ==
    IF agent.name = "" THEN Msg("Agent name is required")
    ELSE IF agent.description = "" THEN Msg("Agent description is required")
    ELSE IF agent.version = "" THEN Msg("Agent version is required")
    ELSE IF agent.provider = "" THEN Msg("Agent provider is required")
    ELSE IF FirstSchemeError(agent.auth_schemes, 1) # <<>>
         THEN FirstSchemeError(agent.auth_schemes, 1)
    ELSE IF agent.agent_card.present /\ agent.agent_card.name = ""
         THEN Msg("Agent card name is required")
    ELSE IF agent.agent_card.present /\ agent.agent_card.description = ""
         THEN Msg("Agent card description is required")
    ELSE IF agent.agent_card.present /\ agent.agent_card.version = ""
         THEN Msg("Agent card version is required")
    ELSE <<>>

\* The agents the callers publish, by tag.
AgentTags == {"valid", "noName", "badScheme"}
AgentOf(tag) ==
    CASE tag = "valid" -> MkAgent("New Agent", "d", "1.0.0", "p", <<Scheme("apiKey", "")>>, NoCard)
      [] tag = "noName" -> MkAgent("", "d", "1.0.0", "p", <<>>, NoCard)
      [] tag = "badScheme" -> MkAgent("A", "d", "1.0.0", "p", <<Scheme("basic", "")>>, NoCard)


\* ---------------------------------------------------------- card converter
\* The entry convertToCardSpec writes for one auth scheme (client.ts 227-232):
\* a scheme without type is taken for an apiKey scheme.
HeaderScheme(scheme) ==
    LET schemeType == IF scheme.type = "" THEN "apiKey" ELSE scheme.type IN
    [type |-> schemeType, location |-> "header",
     name |-> IF scheme.name = "" THEN "Authorization" ELSE scheme.name]

\* The securitySchemes object after the first n schemes of the list
\* (client.ts 225-233): an assignment to an existing key replaces its entry.
RECURSIVE securitySchemes(_, _)
securitySchemes(schemes, n) ==
    IF n = 0 THEN <<>>
    ELSE LET prev == securitySchemes(schemes, n - 1)
             entry == HeaderScheme(schemes[n]) IN
         [k \in DOMAIN prev \cup {entry.type} |-> IF k = entry.type THEN entry ELSE prev[k]]

\* A flag that is dropped: false whatever was set.
OrFalse_dropsFlag(flag) == FALSE

\* `flag || false` (client.ts 218-221).
OrFalse(flag) == flag = "true"

FallbackUrl == "https://example.com"
OrElse(s, default) == IF s = "" THEN default ELSE s

\* interface_ (client.ts 255-263).
Interface(location_url) ==
    [present |-> TRUE, preferredTransport |-> "jsonrpc",
     additionalInterfaces |-> IF location_url = "" THEN <<>>
                              ELSE <<[transport |-> "http", url |-> location_url]>>]

\* convertToCardSpec (client.ts 212-289).  securitySchemes is an object keyed
\* by type (shape "map"); skills, an array here, are passed through.
convertToCardSpec(agent) ==
    [name |-> OrElse(agent.name, "Unnamed Agent"),
     description |-> OrElse(agent.description, "Agent description"),
     url |-> OrElse(agent.location_url, FallbackUrl),
     version |-> OrElse(agent.version, "1.0.0"),
     capabilities |-> [f \in DOMAIN agent.capabilities.flags |->
                          OrFalse(agent.capabilities.flags[f])],
     securitySchemes |-> [shape |-> "map",
                          entries |-> securitySchemes(agent.auth_schemes,
                                                      Len(agent.auth_schemes))],
     skills |-> agent.skills,
     interface |-> Interface(agent.location_url),
     provider |-> [present |-> agent.provider # "", organization |-> agent.provider,
                   url |-> OrElse(agent.location_url, FallbackUrl)]]

\* The Go SDK's convertToCardSpec (client.go 458-541): securitySchemes is a
\* list with one entry per auth scheme.
convertToCardSpecGo(agent) ==
    [name |-> agent.name,
     description |-> agent.description,
     url |-> OrElse(agent.location_url, FallbackUrl),
     version |-> agent.version,
     capabilities |-> [f \in DOMAIN agent.capabilities.flags |->
                          agent.capabilities.present /\ agent.capabilities.flags[f] = "true"],
     securitySchemes |->
         [shape |-> "array",
          entries |-> [i \in 1..Len(agent.auth_schemes) |->
                          [type |-> agent.auth_schemes[i].type, location |-> "header",
                           name |-> OrElse(agent.auth_schemes[i].name, "Authorization")]]],
     skills |-> [i \in 1..Len(agent.skills) |->
                    [agent.skills[i] EXCEPT !.hasTags = TRUE]],
     interface |-> Interface(agent.location_url),
     provider |-> [present |-> agent.provider # "", organization |-> agent.provider,
                   url |-> OrElse(agent.location_url, FallbackUrl)]]

\* agentSkillFromDict (models.ts 148-158).
agentSkillFromDict(skill) ==
    [id |-> skill.id, name |-> skill.name, description |-> skill.description,
     hasTags |-> TRUE, tags |-> IF skill.hasTags THEN skill.tags ELSE <<>>]

\* securitySchemeFromDict (models.ts 136-146).
securitySchemeFromDict(scheme) ==
    [type |-> scheme.type, location |-> scheme.location, name |-> scheme.name]

\* agentCardSpecFromDict (models.ts 160-181) on a card document: it calls
\* .map on securitySchemes, which only an array has, and reads the fields of
\* data.interface; the result is the card, or the TypeError thrown.
NoSpec == [present |-> FALSE]
Parsed(kind, card) == [kind |-> kind, card |-> card]
parseCard(data) ==
    IF data.securitySchemes.shape # "array" \/ ~data.interface.present
    THEN Parsed("TypeError", NoSpec)
    ELSE Parsed("value",
           [name |-> data.name, description |-> data.description, url |-> data.url,
            version |-> data.version, capabilities |-> data.capabilities,
            securitySchemes |->
                [shape |-> "array",
                 entries |-> [i \in 1..Len(data.securitySchemes.entries) |->
                                 securitySchemeFromDict(data.securitySchemes.entries[i])]],
            skills |-> [i \in 1..Len(data.skills) |-> agentSkillFromDict(data.skills[i])],
            interface |-> data.interface,
            provider |-> data.provider])


\* -------------------------------------------------------------- operations
RawOps == {"getHealth", "listAgents", "searchAgents", "listApiKeys"}
AllOps == RawOps \cup {"getAgent", "getAgentCard", "publishAgent", "updateAgent",
                       "deleteAgent", "generateApiKey",
                       "generateApiKeyAndAuthenticate", "validateApiKey",
                       "revokeApiKey", "authenticate"}

Endpoint(method, path, id) == [method |-> method, path |-> path, id |-> id]
NoEndpoint == Endpoint("", "", "")
TokenPath == "/auth/oauth/token"

\* The request an operation starts with (client.ts 294-535); the ids the
\* callers pass are fixed.
EndpointOf(op) ==
    CASE op = "getHealth" -> Endpoint("GET", "/health", "")
      [] op = "listAgents" -> Endpoint("GET", "/agents/public", "")
      [] op = "getAgent" -> Endpoint("GET", "/agents/{id}", "x")
      [] op = "getAgentCard" -> Endpoint("GET", "/agents/{id}/card", "x")
      [] op = "searchAgents" -> Endpoint("POST", "/agents/search", "")
      [] op = "publishAgent" -> Endpoint("POST", "/agents/publish", "")
      [] op = "updateAgent" -> Endpoint("PUT", "/agents/{id}", "x")
      [] op = "deleteAgent" -> Endpoint("DELETE", "/agents/{id}", "x")
      [] op = "generateApiKey" -> Endpoint("POST", "/security/api-keys", "")
      [] op = "generateApiKeyAndAuthenticate" -> Endpoint("POST", "/security/api-keys", "")
      [] op = "validateApiKey" -> Endpoint("POST", "/security/api-keys/validate", "")
      [] op = "revokeApiKey" -> Endpoint("DELETE", "/security/api-keys/{id}", "k")
      [] op = "listApiKeys" -> Endpoint("GET", "/security/api-keys", "")
      [] OTHER -> NoEndpoint

\* --------------------------------------------------------------- responses
\* A response: its status, whether its content-type is application/json, and
\* its body: "empty", "garbage" (not JSON), or a JSON document: "null",
\* "object" (no field the client reads), "detail" ({detail}), "agentId"
\* ({agentId}), "agent" (an Agent), "apiKey" ({api_key, key_id, ...}),
\* "cardArr" / "cardMap" (an AgentCardSpec whose securitySchemes are an array
\* / a map keyed by type).
Response(status, json, body) == [status |-> status, json |-> json, body |-> body]
NoResponse == Response(0, FALSE, "")
\* fetch rejected instead of answering: the abort of the timeout ("abort") or
\* a failure of the network ("network").
Rejected(cause) == Response(0, FALSE, cause)

OkStatuses == {200}
ErrorStatuses == {400, 401, 403, 404, 422, 429, 500, 503}
JsonBodies == {"null", "object", "detail", "agentId", "agent", "apiKey", "cardArr", "cardMap"}

Responses ==
    {Response(s, TRUE, b) : s \in OkStatuses, b \in JsonBodies \cup {"empty", "garbage"}}
    \cup {Response(s, FALSE, "empty") : s \in OkStatuses \cup {204}}
    \cup {Response(s, TRUE, b) : s \in ErrorStatuses, b \in {"empty", "garbage", "null", "object", "detail"}}
    \cup {Response(s, FALSE, b) : s \in ErrorStatuses, b \in {"empty", "detail"}}

IsOk(status) == status >= 200 /\ status <= 299

\* response.json(): the parsed document, or "throws".
ParseJson(body) == IF body \in JsonBodies THEN body ELSE "throws"

\* The id a JSON document carries: the server assigns ServerAgentId on publish
\* and answers a request for /agents/{id} with that agent.
BodyId(body, ep) ==
    IF body = "agentId" THEN ServerAgentId
    ELSE IF body = "agent" THEN (IF ep.id # "" THEN ep.id ELSE ServerAgentId)
    ELSE ""

\* handleResponse (client.ts 173-210), for the response to the request ep.
\* The message of the error: the detail of a JSON error body, else the status.
ErrorMessage(resp) ==
    IF resp.json /\ ParseJson(resp.body) = "detail" THEN "detail" ELSE "status"

\* handleResponse without the try around the parse of the error body: a
\* body that does not parse throws the parser's error.
handleResponse_parseThrows(resp, ep) ==
    IF ~IsOk(resp.status)
    THEN IF resp.json /\ ParseJson(resp.body) \in {"throws", "null"}
         THEN Error("SyntaxError", "")
         ELSE CASE resp.status = 401 -> Error("AuthenticationError", "fixed")
                [] resp.status = 403 -> Error("AuthenticationError", "fixed")
                [] resp.status = 404 -> Error("NotFoundError", "fixed")
                [] resp.status = 422 -> Error("ValidationError", ErrorMessage(resp))
                [] OTHER -> Error("A2AError", ErrorMessage(resp))
    ELSE IF resp.json /\ ParseJson(resp.body) # "throws"
         THEN Value(ParseJson(resp.body), BodyId(resp.body, ep))
         ELSE Value("null", "")

handleResponse(resp, ep) ==
    IF ~IsOk(resp.status)
    THEN CASE resp.status = 401 -> Error("AuthenticationError", "fixed")
           [] resp.status = 403 -> Error("AuthenticationError", "fixed")
           [] resp.status = 404 -> Error("NotFoundError", "fixed")
           [] resp.status = 422 -> Error("ValidationError", ErrorMessage(resp))
           [] OTHER -> Error("A2AError", ErrorMessage(resp))
    ELSE IF resp.json /\ ParseJson(resp.body) # "throws"
         THEN Value(ParseJson(resp.body), BodyId(resp.body, ep))
         ELSE Value("null", "")

\* The catch of request() (client.ts 164-170): cause is "abort" when the
\* timeout fired, else a network failure.
transportError(cause) ==
    IF cause = "abort" THEN Error("A2AError", "timeout") ELSE Error("A2AError", "failed")

\* agentFromDict (models.ts 100-125): reading a field of null throws.
agentFromDict(data) ==
    IF data.val = "null" THEN Error("TypeError", "") ELSE Value("agent", data.id)

\* agentCardSpecFromDict (models.ts 160-181): securitySchemes must have .map,
\* and data.interface must be there.
agentCardSpecFromDict(data) ==
    IF data.val = "cardArr" THEN Value("card", "") ELSE Error("TypeError", "")

\* What an operation makes of the decoded body of its (last) request.
decode(op, data) ==
    CASE op \in RawOps -> data
      [] op \in {"getAgent", "updateAgent", "publishAgent"} -> agentFromDict(data)
      [] op = "getAgentCard" -> agentCardSpecFromDict(data)
      [] op = "deleteAgent" -> Value("void", "")
      [] op \in {"generateApiKey", "generateApiKeyAndAuthenticate"} ->
            IF data.val = "null" THEN Error("TypeError", "") ELSE Value("keyInfo", "")
      [] op = "validateApiKey" -> data
      [] op = "revokeApiKey" -> Value("true", "")
      [] OTHER -> data

\* No catch block: what request() throws reaches the caller.
catchError_rethrows(op, err) == err

\* publishAgent falling back on the published document when a request of
\* its own fails.
catchError_publishFallsBack(op, err) ==
    CASE op = "validateApiKey" -> Value("null", "")
      [] op = "revokeApiKey" -> Value("false", "")
      [] op = "publishAgent" -> Value("agent", "")
      [] OTHER -> err

\* The catch blocks of validateApiKey and revokeApiKey (client.ts 507-512,
\* 522-527): whatever request() throws becomes null / false.
catchError(op, err) ==
    CASE op = "validateApiKey" -> Value("null", "")
      [] op = "revokeApiKey" -> Value("false", "")
      [] OTHER -> err

\* publishAgent going on to getAgent on any document.
hasAgentId_anyDocument(data) == data.val # "null"

\* publishAgent goes on to getAgent when the publish answer has an agentId
\* (client.ts 427); reading .agentId of null throws before that.
hasAgentId(data) == data.val = "agentId"

\* The api key generateApiKeyAndAuthenticate installs: response.api_key, which
\* is undefined unless the document has it (client.ts 476, 491).
GeneratedKey == "generated-key"
apiKeyOf(data) == IF data.val = "apiKey" THEN GeneratedKey ELSE NoKey


\* ---------------------------------------------------------- authentication
\* authenticate() without its check of the client credentials.
authenticatePlan_sendsAnyway(key, id, secret) ==
    IF key # NoKey THEN "skip" ELSE "request"

\* authenticate() without its API-key check.
authenticatePlan_ignoresKey(key, id, secret) ==
    IF id = "" \/ secret = "" THEN "missing" ELSE "request"

\* The start of authenticate() (client.ts 59-67): "skip" when an API key is
\* configured, "missing" when a client credential is missing, else the token
\* request is sent.
authenticatePlan(key, id, secret) ==
    IF key # NoKey THEN "skip"
    ELSE IF id = "" \/ secret = "" THEN "missing"
    ELSE "request"

\* A credential check that fetches a token for every request.
needsAuthenticate_always(key, token, expiresAt, t) == key = NoKey

\* ensureAuthenticated (client.ts 106-117): whether it calls authenticate().
needsAuthenticate(key, token, expiresAt, t) ==
    IF key # NoKey THEN FALSE
    ELSE IF token = NoToken THEN TRUE
    ELSE Truthy(expiresAt) /\ t >= expiresAt

\* An answer of the token endpoint: kind is "network" (fetch rejects), "error"
\* (status not ok), "garbage" (response.json() throws or yields null), or
\* "json" with or without access_token; expires_in = 0 stands for absent.
TokenAnswer(kind, hasToken, expires_in) ==
    [kind |-> kind, hasToken |-> hasToken, expires_in |-> expires_in]
NoAnswer == TokenAnswer("none", FALSE, 0)
TokenAnswers ==
    {TokenAnswer(k, FALSE, 0) : k \in {"network", "error", "garbage"}}
    \cup {TokenAnswer("json", h, e) : h \in BOOLEAN, e \in ExpiresInValues}

\* authenticate() taking any JSON answer for a token.
afterToken_acceptsNoToken(answer, token, expiresAt, t, n) ==
    IF answer.kind # "json"
    THEN [accessToken |-> token, tokenExpiresAt |-> expiresAt, failed |-> TRUE]
    ELSE [accessToken |-> IF answer.hasToken THEN n ELSE NoToken,
          tokenExpiresAt |-> t + (IF Truthy(answer.expires_in) THEN answer.expires_in
                                  ELSE DefaultExpiresIn) - RefreshMargin,
          failed |-> FALSE]

\* authenticate() taking expires_in for the expiry, without the margin.
afterToken_noMargin(answer, token, expiresAt, t, n) ==
    IF answer.kind # "json"
    THEN [accessToken |-> token, tokenExpiresAt |-> expiresAt, failed |-> TRUE]
    ELSE [accessToken |-> IF answer.hasToken THEN n ELSE NoToken,
          tokenExpiresAt |-> t + (IF Truthy(answer.expires_in) THEN answer.expires_in
                                  ELSE DefaultExpiresIn),
          failed |-> ~answer.hasToken]

\* The rest of authenticate() (client.ts 86-103) on the answer to token
\* request number n, at time t, from the cached pair (token, expiresAt).
afterToken(answer, token, expiresAt, t, n) ==
    IF answer.kind # "json"
    THEN [accessToken |-> token, tokenExpiresAt |-> expiresAt, failed |-> TRUE]
    ELSE [accessToken |-> IF answer.hasToken THEN n ELSE NoToken,
          tokenExpiresAt |-> t + (IF Truthy(answer.expires_in) THEN answer.expires_in
                                  ELSE DefaultExpiresIn) - RefreshMargin,
          failed |-> ~answer.hasToken]

\* The Authorization header request() sets (client.ts 143-148).
Cred(kind, key, token) == [kind |-> kind, key |-> key, token |-> token]
credential(key, token) ==
    IF key # NoKey THEN Cred("apiKey", key, NoToken)
    ELSE IF token # NoToken THEN Cred("token", NoKey, token)
    ELSE Cred("none", NoKey, NoToken)

\* The authentication state of the client.
authState == <<apiKey, accessToken, tokenExpiresAt>>

\* A pre-flight check that is skipped whatever the flag.
rejectsLocally_never(validate, agent) == FALSE

\* publishAgent's pre-flight check (client.ts 406-411).
rejectsLocally(validate, agent) == validate /\ Len(validateAgent(agent)) > 0

\* ------------------------------------------------------------------ callers
IdleCall ==
    [pc |-> "idle", op |-> "none", agent |-> "none", validate |-> FALSE,
     ep |-> NoEndpoint, treq |-> 0, toks |-> 0, tans |-> NoAnswer,
     reqs |-> <<>>, resps |-> <<>>, result |-> NoResult]

finish(rec, r) == [rec EXCEPT !.pc = "done", !.result = r]
\* An operation that answers an AuthenticationError by going through the
\* pipeline once more.
fail_retries(rec, err) ==
    IF err.kind = "AuthenticationError" /\ Len(rec.reqs) < 3
    THEN [rec EXCEPT !.pc = "authed"]
    ELSE finish(rec, catchError(rec.op, err))

\* request() threw err inside the operation rec.op.
fail(rec, err) == finish(rec, catchError(rec.op, err))
\* authenticate() returned: the explicit call is over, request() goes on.
proceed(rec) ==
    IF rec.op = "authenticate" THEN finish(rec, Value("void", ""))
    ELSE [rec EXCEPT !.pc = "authed"]

\* The client as its constructor leaves it (client.ts 40-47), for the options
\* keys, ids and secrets.
Constructed(keys, ids, secrets) ==
    /\ apiKey \in keys
    /\ clientId \in ids
    /\ clientSecret \in secrets
    /\ accessToken = NoToken
    /\ tokenExpiresAt = Undefined
    /\ now = StartNow
    /\ tokenRequests = 0
    /\ authenticated = FALSE
    /\ call = [c \in Callers |-> IdleCall]

\* No function has been applied: the subject is the agent of the tests.
Outcome(fn, errors, card, parsed) ==
    [fn |-> fn, errors |-> errors, card |-> card, parsed |-> parsed]
NoOutcome == Outcome("none", <<>>, NoSpec, Parsed("none", NoSpec))
NoConversion == subject = AgentOf("valid") /\ outcome = NoOutcome

Init ==
    /\ Constructed({NoKey, "constructor-key"}, {"", "client-id"}, {"", "client-secret"})
    /\ NoConversion

\* authenticate() up to its fetch, for the caller record rec.
Authenticate(c, rec) ==
    LET plan == authenticatePlan(apiKey, clientId, clientSecret) IN
    CASE plan = "skip" ->
            /\ call' = [call EXCEPT ![c] = proceed(rec)]
            /\ UNCHANGED tokenRequests
      [] plan = "missing" ->
            /\ call' = [call EXCEPT ![c] = fail(rec, Error("AuthenticationError", "credentials"))]
            /\ UNCHANGED tokenRequests
      [] plan = "request" ->
            /\ tokenRequests < MaxTokenReqs
            /\ tokenRequests' = tokenRequests + 1
            /\ call' = [call EXCEPT ![c] = [rec EXCEPT !.pc = "awaitToken",
                                                       !.treq = tokenRequests + 1,
                                                       !.toks = @ + 1]]

\* request() up to the end of the synchronous part of ensureAuthenticated().
EnsureAuthenticated(c, rec) ==
    IF needsAuthenticate(apiKey, accessToken, tokenExpiresAt, now)
    THEN Authenticate(c, rec)
    ELSE /\ call' = [call EXCEPT ![c] = [rec EXCEPT !.pc = "authed"]]
         /\ UNCHANGED tokenRequests

\* A caller calls authenticate() itself.
AuthenticateCall(c) ==
    /\ call[c].pc = "idle"
    /\ Authenticate(c, [IdleCall EXCEPT !.op = "authenticate"])
    /\ UNCHANGED <<client, now, authenticated, conv>>

\* A caller calls an operation that is one request.
Operation(c, op) ==
    /\ call[c].pc = "idle"
    /\ op \notin {"authenticate", "publishAgent"}
    /\ EnsureAuthenticated(c, [IdleCall EXCEPT !.op = op, !.ep = EndpointOf(op)])
    /\ UNCHANGED <<client, now, authenticated, conv>>

\* A caller calls publishAgent(AgentOf(tag), validate).
PublishAgent(c, tag, validate) ==
    /\ call[c].pc = "idle"
    /\ LET rec == [IdleCall EXCEPT !.op = "publishAgent", !.agent = tag,
                                   !.validate = validate] IN
       IF rejectsLocally(validate, AgentOf(tag))
       THEN /\ call' = [call EXCEPT ![c] = finish(rec, Error("ValidationError", "local"))]
            /\ UNCHANGED tokenRequests
       ELSE EnsureAuthenticated(c, [rec EXCEPT !.ep = EndpointOf("publishAgent")])
    /\ UNCHANGED <<client, now, authenticated, conv>>

\* The token endpoint answers the caller's token request.
TokenResponse(c, answer) ==
    /\ call[c].pc = "awaitToken"
    /\ LET out == afterToken(answer, accessToken, tokenExpiresAt, now, call[c].treq)
           rec == [call[c] EXCEPT !.treq = 0, !.tans = answer] IN
       /\ accessToken' = out.accessToken
       /\ tokenExpiresAt' = out.tokenExpiresAt
       /\ call' = [call EXCEPT ![c] =
                     IF out.failed
                     THEN fail(rec, Error("AuthenticationError", "token"))
                     ELSE proceed(rec)]
       /\ authenticated' = (authenticated \/ ~out.failed)
    /\ UNCHANGED <<apiKey, clientId, clientSecret, now, tokenRequests, conv>>

\* request() after `await this.ensureAuthenticated()`: headers and fetch.
Dispatch(c) ==
    /\ call[c].pc = "authed"
    /\ call' = [call EXCEPT ![c] =
                  [@ EXCEPT !.pc = "awaitResp",
                            !.reqs = Append(@, [ep |-> call[c].ep,
                                                cred |-> credential(apiKey, accessToken),
                                                auth |-> authState])]]
    /\ UNCHANGED <<client, now, tokenRequests, authenticated, conv>>

\* The server answers the caller's request.
Respond(c, resp) ==
    /\ call[c].pc = "awaitResp"
    /\ LET rec == [call[c] EXCEPT !.resps = Append(@, resp)]
           data == handleResponse(resp, rec.ep) IN
       IF data.kind # "value"
       THEN /\ call' = [call EXCEPT ![c] = fail(rec, data)]
            /\ UNCHANGED <<apiKey, tokenRequests>>
       ELSE IF rec.op = "publishAgent" /\ rec.ep.method = "POST" /\ hasAgentId(data)
       THEN /\ EnsureAuthenticated(c, [rec EXCEPT !.ep = Endpoint("GET", "/agents/{id}", data.id)])
            /\ UNCHANGED apiKey
       ELSE LET r == decode(rec.op, data) IN
            /\ call' = [call EXCEPT ![c] = finish(rec, r)]
            /\ apiKey' = IF rec.op = "generateApiKeyAndAuthenticate" /\ r.kind = "value"
                         THEN apiKeyOf(data) ELSE apiKey
            /\ UNCHANGED tokenRequests
    /\ UNCHANGED <<clientId, clientSecret, accessToken, tokenExpiresAt, now, authenticated, conv>>

\* fetch rejects: the timeout aborted it, or the network failed.
TransportFailure(c, cause) ==
    /\ call[c].pc = "awaitResp"
    /\ call' = [call EXCEPT ![c] = fail([call[c] EXCEPT !.resps = Append(@, Rejected(cause))],
                                        transportError(cause))]
    /\ UNCHANGED <<client, now, tokenRequests, authenticated, conv>>

\* The caller takes the result; it may call again.
Return(c) ==
    /\ call[c].pc = "done"
    /\ call' = [call EXCEPT ![c] = IdleCall]
    /\ UNCHANGED <<client, now, tokenRequests, authenticated, conv>>

SetApiKey(key) ==
    /\ apiKey' = key
    /\ UNCHANGED <<clientId, clientSecret, accessToken, tokenExpiresAt, now,
                   tokenRequests, authenticated, call, conv>>

Tick(d) ==
    /\ now + d <= MaxNow
    /\ now' = now + d
    /\ UNCHANGED <<client, tokenRequests, authenticated, call, conv>>

\* ---------------------------------------------------------- specifications
\* Spec: the request pipeline.  One caller, every operation, every answer of
\* the server, on a client configured with an API key, with client
\* credentials, with both or with neither.
Next ==
    \E c \in SeqCallers :
        \/ AuthenticateCall(c)
        \/ \E op \in AllOps : Operation(c, op)
        \/ \E tag \in AgentTags, v \in BOOLEAN : PublishAgent(c, tag, v)
        \/ \E answer \in TokenAnswers : TokenResponse(c, answer)
        \/ Dispatch(c)
        \/ \E resp \in Responses : Respond(c, resp)
        \/ \E cause \in {"abort", "network"} : TransportFailure(c, cause)
        \/ Return(c)

Spec == Init /\ [][Next]_vars

\* SpecAuth: the authentication state over time.  One caller whose calls
\* follow one another, the clock, setApiKey, and the operations that touch the
\* authentication state or send two requests.
AuthOps == {"getHealth", "generateApiKeyAndAuthenticate"}
AuthResponses ==
    {Response(200, TRUE, b) : b \in {"agentId", "agent", "apiKey"}}
    \cup {Response(401, FALSE, "empty")}

NextAuth ==
    \/ \E c \in SeqCallers :
        \/ AuthenticateCall(c)
        \/ \E op \in AuthOps : Operation(c, op)
        \/ PublishAgent(c, "valid", FALSE)
        \/ \E answer \in TokenAnswers : TokenResponse(c, answer)
        \/ Dispatch(c)
        \/ \E resp \in AuthResponses : Respond(c, resp)
        \/ TransportFailure(c, "abort")
        \/ Return(c)
    \/ SetApiKey("set-key")
    \/ \E d \in TickSteps : Tick(d)

InitAuth ==
    /\ Constructed({NoKey, "constructor-key"}, {"client-id"}, {"client-secret"})
    /\ NoConversion

SpecAuth == InitAuth /\ [][NextAuth]_vars

\* SpecConc: callers whose calls overlap.
ConcAnswers ==
    {TokenAnswer("error", FALSE, 0), TokenAnswer("json", TRUE, 90), TokenAnswer("json", FALSE, 0)}
ConcResponses == {Response(200, FALSE, "empty"), Response(401, FALSE, "empty")}

NextConc ==
    \/ \E c \in Callers :
        \/ AuthenticateCall(c)
        \/ Operation(c, "getHealth")
        \/ \E answer \in ConcAnswers : TokenResponse(c, answer)
        \/ Dispatch(c)
        \/ \E resp \in ConcResponses : Respond(c, resp)
        \/ Return(c)
    \/ SetApiKey("set-key")
    \/ \E d \in TickSteps : Tick(d)

InitConc ==
    /\ Constructed({NoKey}, {"client-id"}, {"client-secret"})
    /\ NoConversion

SpecConc == InitConc /\ [][NextConc]_vars

\* SpecLive: the request pipeline with what the runtime schedules by itself:
\* the continuation after `await this.ensureAuthenticated()` runs, and the
\* timer set before the fetch of request() fires while that fetch is pending
\* (client.ts 150-151).  The server owes nothing: no fairness on its answers.
SpecLive ==
    /\ Init /\ [][Next]_vars
    /\ WF_vars(\E c \in SeqCallers : Dispatch(c))
    /\ WF_vars(\E c \in SeqCallers : TransportFailure(c, "abort"))

\* SpecConv: the validator and the card converter, which are functions of
\* their argument alone, applied to every agent of a bounded family.
SeqsUpTo(S, n) == UNION {[1..k -> S] : k \in 0..n}

\* Agents for the validator: each required field empty or not, with or without
\* the key 'name', schemes without type, of a known type and of an unknown
\* one, and an agent card with each of its checked fields empty or not.
ValidationSchemes ==
    SeqsUpTo({Scheme(t, "") : t \in {"", "apiKey", "bearer", "basic"}}, MaxSchemes)
Cards == {NoCard} \cup {Card(n, d, v) : n \in {"", "Card"}, d \in {"", "cd"}, v \in {"", "2.0.0"}}
ValidationAgents ==
    {agent \in
        {[MkAgent(n, d, v, p, s, k) EXCEPT !.hasName = h] :
            n \in {"", "A"}, d \in {"", "d"}, v \in {"", "1.0.0"}, p \in {"", "p"},
            s \in ValidationSchemes, k \in Cards, h \in BOOLEAN} :
        agent.hasName \/ agent.name = ""}

\* Agents for the converter: well-formed name, description and version, any
\* list of schemes (with and without type and name, types repeated), skills
\* carrying id, name, description and tags, with or without location_url; and
\* agents with each setting of the capability flags.
ConversionSchemes ==
    SeqsUpTo({Scheme(t, n) : t \in {"", "apiKey", "oauth2"}, n \in {"", "X-API-Key"}},
             MaxSchemes)
ConversionSkills == SeqsUpTo({Skill("s1", <<"t1">>), Skill("s2", <<>>)}, MaxSkills)
FlagValues == {"true", "false", "unset"}
ConversionAgents ==
    {[MkAgent("A", "d", "1.0.0", "p", s, NoCard) EXCEPT !.skills = k, !.location_url = u] :
        s \in ConversionSchemes, k \in ConversionSkills, u \in {"", "https://a.example"}}
    \cup {[MkAgent("A", "d", "1.0.0", "p", <<>>, NoCard) EXCEPT !.capabilities = caps] :
            caps \in {NoCapabilities}
                     \cup {Capabilities(Flags(a, b, c, d)) :
                             a \in FlagValues, b \in FlagValues,
                             c \in FlagValues, d \in FlagValues}}

InitConv ==
    /\ Constructed({"constructor-key"}, {""}, {""})
    /\ subject \in ValidationAgents \cup ConversionAgents
    /\ outcome = NoOutcome

\* client.validateAgent(subject).
Validate ==
    /\ outcome.fn = "none"
    /\ outcome' = Outcome("validateAgent", validateAgent(subject), NoSpec, Parsed("none", NoSpec))
    /\ UNCHANGED <<client, now, tokenRequests, authenticated, call, subject>>

\* The Go client's ValidateAgent(&subject), for an Agent struct.
ValidateGo ==
    /\ outcome.fn = "none" /\ subject.hasName
    /\ outcome' = Outcome("ValidateAgent", ValidateAgent(subject), NoSpec, Parsed("none", NoSpec))
    /\ UNCHANGED <<client, now, tokenRequests, authenticated, call, subject>>

\* convertToCardSpec(subject), as publishAgent calls it.
Convert ==
    /\ outcome.fn = "none"
    /\ outcome' = Outcome("convertToCardSpec", <<>>, convertToCardSpec(subject),
                          Parsed("none", NoSpec))
    /\ UNCHANGED <<client, now, tokenRequests, authenticated, call, subject>>

\* The Go client's convertToCardSpec(&subject).
ConvertGo ==
    /\ outcome.fn = "none" /\ subject.hasName
    /\ outcome' = Outcome("convertToCardSpecGo", <<>>, convertToCardSpecGo(subject),
                          Parsed("none", NoSpec))
    /\ UNCHANGED <<client, now, tokenRequests, authenticated, call, subject>>

\* agentCardSpecFromDict on the card convertToCardSpec has produced.
Hydrate ==
    /\ outcome.fn = "convertToCardSpec"
    /\ outcome' = Outcome("agentCardSpecFromDict", <<>>, outcome.card, parseCard(outcome.card))
    /\ UNCHANGED <<client, now, tokenRequests, authenticated, call, subject>>

NextConv == Validate \/ ValidateGo \/ Convert \/ ConvertGo \/ Hydrate

SpecConv == InitConv /\ [][NextConv]_vars


\* ------------------------------------------------------------------ helpers
InFlightTokenRequests == {c \in Callers : call[c].pc = "awaitToken"}
\* The caller's step sends a request to the token endpoint.
StartsTokenRequest(c) == call[c].pc # "awaitToken" /\ call'[c].pc = "awaitToken"
TokenExpired == Truthy(tokenExpiresAt) /\ now >= tokenExpiresAt
LastResponse(rec) == rec.resps[Len(rec.resps)]
Answered(rec) == rec.pc = "done" /\ Len(rec.resps) > 0

\* ------------------------------------------------------------------ claims
\* C1: in a state where the client's apiKey is set, no step sends a request
\* to the token endpoint: not a call of authenticate(), not the credential
\* check of an operation (first request or follow-up), whatever the client
\* credentials and the cached token are.
C1_ApiKeyBypassesOAuth ==
    [][apiKey # NoKey => tokenRequests' = tokenRequests]_vars

\* C1 witness: the key came from generateApiKeyAndAuthenticate, client
\* credentials are configured, the cached token has expired, and an operation
\* has passed its credential check and sent its request with the key, without
\* a token request.
C1_Witness ==
    /\ apiKey = GeneratedKey
    /\ clientId # "" /\ clientSecret # ""
    /\ accessToken # NoToken /\ TokenExpired
    /\ \E c \in Callers :
        /\ call[c].pc = "awaitResp"
        /\ call[c].op = "getHealth"
        /\ call[c].toks = 0
        /\ call[c].reqs[1].cred = Cred("apiKey", GeneratedKey, NoToken)

\* C2: callers whose credential checks overlap share one refresh: while the
\* token request of one operation is in flight, no other operation sends a
\* token request of its own.
C2_ConcurrentCallersShareOneRefresh ==
    [][\A c \in Callers :
          (StartsTokenRequest(c) /\ call'[c].op # "authenticate")
          => ~\E d \in Callers \ {c} :
                call[d].pc = "awaitToken" /\ call[d].op # "authenticate"]_vars

\* C3: at every moment at most one token request is in flight for the client.
C3_AtMostOneTokenRequestInFlight == Cardinality(InFlightTokenRequests) <= 1


\* C4: on a client without API key, once an authenticate() has succeeded,
\* every credential check made while now < tokenExpiresAt sends no token
\* request (only a call of authenticate() itself does), and the request
\* dispatched after it carries the cached access token.
C4_CachedTokenReused ==
    [][(apiKey = NoKey /\ authenticated /\ Truthy(tokenExpiresAt) /\ now < tokenExpiresAt)
       => \A c \in Callers :
            /\ StartsTokenRequest(c) => call'[c].op = "authenticate"
            /\ (call[c].pc = "authed" /\ call'[c].pc = "awaitResp")
               => /\ accessToken # NoToken
                  /\ call'[c].reqs[Len(call'[c].reqs)].cred = Cred("token", NoKey, accessToken)]_vars

\* C5: every operation of the list ends with a decoded value or with an error
\* of the taxonomy, whatever the server does.
C5Ops == {"getHealth", "listAgents", "getAgent", "getAgentCard", "searchAgents",
          "publishAgent", "updateAgent", "deleteAgent", "generateApiKey", "listApiKeys"}
C5_ValueOrTaxonomyError ==
    \A c \in Callers :
        (call[c].pc = "done" /\ call[c].op \in C5Ops)
        => (call[c].result.kind = "value" \/ IsA2AError(call[c].result.kind))

\* C6: an operation that does not downgrade errors and whose request is
\* answered 401 or 403 fails with AuthenticationError, 404 with NotFoundError,
\* 422 with ValidationError, whatever the body of the answer is.
Downgrading == {"validateApiKey", "revokeApiKey"}
StatusKind(status) ==
    CASE status \in {401, 403} -> "AuthenticationError"
      [] status = 404 -> "NotFoundError"
      [] status = 422 -> "ValidationError"
C6_StatusDecidesErrorKind ==
    \A c \in Callers :
        (Answered(call[c]) /\ call[c].op \notin Downgrading
         /\ LastResponse(call[c]).status \in {401, 403, 404, 422})
        => call[c].result.kind = StatusKind(LastResponse(call[c]).status)

\* C6 witness: a 401 whose JSON body does not parse ended getAgent with
\* AuthenticationError.
C6_Witness ==
    \E c \in Callers :
        /\ Answered(call[c]) /\ call[c].op = "getAgent"
        /\ LastResponse(call[c]) = Response(401, TRUE, "garbage")
        /\ call[c].result.kind = "AuthenticationError"

\* C7: an answer 429 ends the operation with RateLimitError and an answer 5xx
\* with ServerError.
C7_RateLimitAndServerError ==
    \A c \in Callers :
        (Answered(call[c]) /\ call[c].op \notin Downgrading)
        => /\ LastResponse(call[c]).status = 429 => call[c].result.kind = "RateLimitError"
           /\ LastResponse(call[c]).status \in 500..599 => call[c].result.kind = "ServerError"

\* publishAgent's requests and answers.
PublishRequest == EndpointOf("publishAgent")
GetPublished == Endpoint("GET", "/agents/{id}", ServerAgentId)
PublishAnsweredWithAgentId(rec) ==
    /\ Len(rec.resps) >= 1
    /\ IsOk(rec.resps[1].status) /\ rec.resps[1].json /\ rec.resps[1].body = "agentId"
PublishOrder(rec) ==
    /\ Len(rec.reqs) <= 2
    /\ Len(rec.reqs) >= 1 => rec.reqs[1].ep = PublishRequest
    /\ Len(rec.reqs) = 2 => (rec.reqs[2].ep = GetPublished /\ PublishAnsweredWithAgentId(rec))
PublishReturnsGetAnswer(rec) ==
    (rec.pc = "done" /\ PublishAnsweredWithAgentId(rec) /\ rec.result.kind = "value")
    => /\ Len(rec.resps) = 2 /\ IsOk(rec.resps[2].status)
       /\ rec.result.val = "agent"
       /\ rec.result.id = BodyId(rec.resps[2].body, rec.reqs[2].ep)
       /\ rec.resps[2].body = "agent" => rec.result.id = ServerAgentId

C9_ValidationGatesPublish ==
    \A c \in Callers :
        call[c].op = "publishAgent"
        => /\ (call[c].validate /\ Len(validateAgent(AgentOf(call[c].agent))) > 0)
              => /\ call[c].pc = "done"
                 /\ call[c].result = Error("ValidationError", "local")
                 /\ call[c].reqs = <<>> /\ call[c].toks = 0
           /\ ~call[c].validate
              => /\ call[c].result # Error("ValidationError", "local")
                 /\ (call[c].pc = "done" /\ call[c].reqs = <<>>)
                    => call[c].result.kind = "AuthenticationError"

\* C9 witness: on a client that would have to fetch a token, a validated
\* publish of the agent without name ended locally.
C9_Witness ==
    \E c \in Callers :
        /\ apiKey = NoKey /\ clientId # "" /\ clientSecret # "" /\ accessToken = NoToken
        /\ call[c].op = "publishAgent" /\ call[c].validate /\ call[c].agent = "noName"
        /\ call[c].pc = "done" /\ call[c].result.kind = "ValidationError"
        /\ tokenRequests = 0

\* C10: validateApiKey answered 401 returns null and revokeApiKey answered 404
\* returns false; answered 2xx they return the decoded body and true.
C10_CheckOperationsDowngrade ==
    \A c \in Callers :
        Answered(call[c])
        => LET last == LastResponse(call[c]) IN
           /\ (call[c].op = "validateApiKey" /\ last.status = 401)
              => call[c].result = Value("null", "")
           /\ (call[c].op = "revokeApiKey" /\ last.status = 404)
              => call[c].result = Value("false", "")
           /\ (call[c].op = "validateApiKey" /\ IsOk(last.status))
              => /\ call[c].result.kind = "value"
                 /\ call[c].result.val =
                      (IF last.json /\ last.body \in JsonBodies THEN last.body ELSE "null")
           /\ (call[c].op = "revokeApiKey" /\ IsOk(last.status))
              => call[c].result = Value("true", "")

\* C10 witness: a 401 made validateApiKey return null.
C10_Witness ==
    \E c \in Callers :
        /\ Answered(call[c]) /\ call[c].op = "validateApiKey"
        /\ LastResponse(call[c]).status = 401
        /\ call[c].result = Value("null", "")

\* C11: a call whose request was aborted by the timeout ends with the base
\* error (the A2AError of the timeout), and the client's authentication state
\* (apiKey, accessToken, tokenExpiresAt) is then what it was when the request
\* was dispatched.
TimedOut(rec) == Answered(rec) /\ LastResponse(rec) = Rejected("abort")
C11_TimeoutIsBaseError ==
    \A c \in Callers :
        TimedOut(call[c])
        => /\ call[c].result = Error("A2AError", "timeout")
           /\ authState = call[c].reqs[Len(call[c].reqs)].auth

\* C12: every call that has started eventually completes (returns or fails),
\* whether or not the server ever answers, the token endpoint included.
C12_EveryCallCompletes ==
    \A c \in Callers : (call[c].pc \notin {"idle", "done"}) ~> (call[c].pc = "done")

\* C13: each call is one attempt.  An operation sends at most one request to
\* a resource endpoint (publishAgent at most two: the POST, then the GET after
\* the POST's 2xx answer); a request that failed (status not 2xx, network
\* failure, timeout) is the last thing the call sent and ends the call; and
\* the call sends at most one token request per request it goes on to make.
MaxRequests(op) == IF op = "publishAgent" THEN 2 ELSE 1
Failed(resp) == ~IsOk(resp.status)
C13_ExactlyOneAttempt ==
    \A c \in Callers :
        LET rec == call[c] IN
        /\ Len(rec.reqs) <= MaxRequests(rec.op)
        /\ Len(rec.resps) <= Len(rec.reqs)
        /\ rec.toks <= MaxRequests(rec.op)
        /\ rec.toks <= Len(rec.resps) + 1
        /\ Len(rec.reqs) = 2
           => /\ rec.reqs[1].ep.method = "POST" /\ rec.reqs[2].ep.method = "GET"
              /\ ~Failed(rec.resps[1])
        /\ \A i \in 1..Len(rec.resps) :
              Failed(rec.resps[i])
              => /\ i = Len(rec.resps) /\ i = Len(rec.reqs)
                 /\ rec.pc = "done"
                 /\ rec.toks <= i

\* C13 witness: an OAuth client fetched its token, the request was answered
\* 401, and the call ended there with the AuthenticationError: one request,
\* one token request.
C13_Witness ==
    \E c \in Callers :
        /\ call[c].pc = "done" /\ call[c].op = "getAgent"
        /\ Len(call[c].reqs) = 1 /\ call[c].toks = 1
        /\ LastResponse(call[c]).status = 401
        /\ call[c].result.kind = "AuthenticationError"

\* C14: every request dispatched to an endpoint other than the token endpoint
\* carries a credential: the API key if one was set when the request was
\* built, else the access token; none is dispatched without one.
C14_EveryRequestCarriesCredential ==
    \A c \in Callers :
        \A i \in 1..Len(call[c].reqs) :
            LET req == call[c].reqs[i] IN
            /\ req.ep.path # TokenPath
            /\ req.cred.kind # "none"
            /\ req.auth[1] # NoKey => req.cred = Cred("apiKey", req.auth[1], NoToken)
            /\ req.auth[1] = NoKey => req.cred = Cred("token", NoKey, req.auth[2])

\* A client with neither an API key nor complete client credentials.
NoCredentials == apiKey = NoKey /\ (clientId = "" \/ clientSecret = "")
\* The caller's step starts a call.
Starts(c) == call[c].pc = "idle" /\ call'[c].pc # "idle"
\* The call ended where it started, without token request or request.
EndedLocally(rec) == rec.pc = "done" /\ rec.reqs = <<>> /\ rec.toks = 0

Refused(answer) ==
    \/ answer.kind \in {"error", "garbage"}
    \/ answer.kind = "json" /\ ~answer.hasToken

Texts(errors) == {errors[i].text : i \in 1..Len(errors)}
\* The checks of the validator, stated on the agent the caller passed.
SchemesValid(agent) ==
    \A i \in 1..Len(agent.auth_schemes) :
        agent.auth_schemes[i].type # "" /\ agent.auth_schemes[i].type \in validTypes
CardValid(agent) ==
    agent.agent_card.present
    => /\ agent.agent_card.name # "" /\ agent.agent_card.description # ""
       /\ agent.agent_card.version # ""
AgentValid(agent) ==
    /\ agent.name # "" /\ agent.description # "" /\ agent.version # ""
    /\ agent.provider # ""
    /\ SchemesValid(agent) /\ CardValid(agent)

\* C17: validateAgent(agent) returns the empty list exactly when name,
\* description, version and provider are non-empty, every auth scheme has a
\* type of the five known ones, and the agent card, when present, has
\* non-empty name, description and version; an agent with an empty name gets a
\* list containing the 'name is required' message.
C17_EmptyListIffValid ==
    outcome.fn = "validateAgent"
    => /\ (outcome.errors = <<>>) <=> AgentValid(subject)
       /\ subject.name = "" => "Agent name is required" \in Texts(outcome.errors)

\* C17 witness: the agent {name: "", description, version, provider} of the
\* specification got exactly the 'name is required' message.
C17_Witness ==
    /\ outcome.fn = "validateAgent"
    /\ subject = MkAgent("", "d", "1.0.0", "p", <<>>, NoCard)
    /\ Texts(outcome.errors) = {"Agent name is required"}

\* The checks an agent violates, in the order name, description, version,
\* provider, auth schemes by index, card name, card description, card version.
Violation(check, at) == [check |-> check, at |-> at]
FieldViolations(rec, prefix) ==
    (IF rec.name = "" THEN <<Violation(prefix \o "name", -1)>> ELSE <<>>)
    \o (IF rec.description = "" THEN <<Violation(prefix \o "description", -1)>> ELSE <<>>)
    \o (IF rec.version = "" THEN <<Violation(prefix \o "version", -1)>> ELSE <<>>)
Indices(n) == [i \in 1..n |-> i]
SchemeViolations(schemes) ==
    LET bad == SelectSeq(Indices(Len(schemes)),
                         LAMBDA i : schemes[i].type = "" \/ schemes[i].type \notin validTypes)
    IN [j \in 1..Len(bad) |-> Violation("auth_scheme", bad[j] - 1)]
Violations(agent) ==
    FieldViolations(agent, "")
    \o (IF agent.provider = "" THEN <<Violation("provider", -1)>> ELSE <<>>)
    \o SchemeViolations(agent.auth_schemes)
    \o (IF agent.agent_card.present THEN FieldViolations(agent.agent_card, "card ") ELSE <<>>)
\* The check a message of the validator is about.
CheckOf(text) ==
    CASE text = "Agent name is required" -> "name"
      [] text = "Agent description is required" -> "description"
      [] text = "Agent version is required" -> "version"
      [] text = "Agent provider is required" -> "provider"
      [] text = "Agent card name is required" -> "card name"
      [] text = "Agent card description is required" -> "card description"
      [] text = "Agent card version is required" -> "card version"
      [] OTHER -> "auth_scheme"
Reported(errors) == [i \in 1..Len(errors) |-> Violation(CheckOf(errors[i].text), errors[i].at)]

\* C18: the validator reports every violated check in one call: for an agent
\* violating k checks it returns k entries, in the order of the checks.
C18_AllViolationsReported ==
    outcome.fn \in {"validateAgent", "ValidateAgent"}
    => Reported(outcome.errors) = Violations(subject)

\* The last scheme of the list with the given type.
TypesOf(schemes) == {schemes[i].type : i \in 1..Len(schemes)}
LastOfType(schemes, t) ==
    schemes[CHOOSE i \in 1..Len(schemes) :
                /\ schemes[i].type = t
                /\ \A j \in (i + 1)..Len(schemes) : schemes[j].type # t]

\* C19: the card's securitySchemes is a map keyed by scheme type with exactly
\* one entry per type occurring in agent.auth_schemes; the entry of a type
\* comes from the last scheme of that type, with location "header" and the
\* scheme's name, or "Authorization" when it has none.
C19_SecuritySchemesKeyedByType ==
    outcome.fn \in {"convertToCardSpec", "convertToCardSpecGo"}
    => LET schemes == subject.auth_schemes
           out == outcome.card.securitySchemes IN
       /\ out.shape = "map"
       /\ DOMAIN out.entries = TypesOf(schemes)
       /\ \A t \in TypesOf(schemes) :
            out.entries[t] = [type |-> t, location |-> "header",
                              name |-> IF LastOfType(schemes, t).name = ""
                                       THEN "Authorization"
                                       ELSE LastOfType(schemes, t).name]

\* An agent with non-empty name, description and version whose skills all
\* carry id, name, description and tags.
WellFormed(agent) ==
    /\ agent.hasName
    /\ agent.name # "" /\ agent.description # "" /\ agent.version # ""
    /\ \A i \in 1..Len(agent.skills) :
         /\ agent.skills[i].id # "" /\ agent.skills[i].name # ""
         /\ agent.skills[i].description # "" /\ agent.skills[i].hasTags

\* C20: for a well-formed agent, parsing the card that convertToCardSpec has
\* made of it succeeds and gives back the agent's name, description, version
\* and skills (the same elements in the same order).
C20_CardRoundTrip ==
    (outcome.fn = "agentCardSpecFromDict" /\ WellFormed(subject))
    => /\ outcome.parsed.kind = "value"
       /\ outcome.parsed.card.name = subject.name
       /\ outcome.parsed.card.description = subject.description
       /\ outcome.parsed.card.version = subject.version
       /\ outcome.parsed.card.skills = subject.skills

\* ---------------------------------------------------------------- C21
CapabilityFlags ==
    {"streaming", "pushNotifications", "stateTransitionHistory",
     "supportsAuthenticatedExtendedCard"}
Converted == outcome.fn \in {"convertToCardSpec", "convertToCardSpecGo"}

\* C21: the card produced from an agent carries all four capability flags;
\* each is false unless it is explicitly set on agent.capabilities, in which
\* case it equals the value set; an agent without capabilities gets all four
\* false.
C21_CapabilityFlagsDefaultFalse ==
    Converted =>
        /\ DOMAIN outcome.card.capabilities = CapabilityFlags
        /\ \A f \in CapabilityFlags :
              /\ outcome.card.capabilities[f] \in BOOLEAN
              /\ outcome.card.capabilities[f] =
                    (subject.capabilities.present /\ subject.capabilities.flags[f] = "true")

\* An agent with one flag set to true, one set to false and one left unset has
\* been converted, and the card's flags are true, false and false.
C21_Witness ==
    /\ Converted
    /\ subject.capabilities.present
    /\ subject.capabilities.flags.streaming = "true"
    /\ subject.capabilities.flags.pushNotifications = "false"
    /\ subject.capabilities.flags.stateTransitionHistory = "unset"
    /\ outcome.card.capabilities.streaming
    /\ ~outcome.card.capabilities.pushNotifications
    /\ ~outcome.card.capabilities.stateTransitionHistory

\* ---------------------------------------------------------------- C22
\* The step is the end of a credential check of caller c that fails: the
\* operation starts on a client without usable credentials, or the token
\* endpoint answers the token request of the operation's credential check
\* with anything but a token.
CredentialCheckFails(c) ==
    /\ call'[c].op \notin {"none", "authenticate"}
    /\ \/ /\ call[c].pc = "idle" /\ call'[c].pc # "idle"
          /\ apiKey = NoKey /\ accessToken = NoToken
          /\ clientId = "" \/ clientSecret = ""
          /\ ~(call'[c].validate /\ ~AgentValid(AgentOf(call'[c].agent)))
       \/ /\ call[c].pc = "awaitToken" /\ call'[c].pc # "awaitToken"
          /\ call'[c].tans.kind # "json" \/ ~call'[c].tans.hasToken
\* The step sends a request of caller c to its target endpoint.
Sends(c) == call'[c].pc # "idle" /\ Len(call'[c].reqs) > Len(call[c].reqs)

TokenGranted(c) ==
    /\ call[c].pc = "awaitToken" /\ call'[c].pc # "awaitToken"
    /\ call'[c].tans.kind = "json" /\ call'[c].tans.hasToken
    /\ Truthy(call'[c].tans.expires_in)
\* The step starts an operation of caller c on a client in OAuth mode that
\* holds a token with an expiry: its credential check runs (a publishAgent
\* stopped by its own validation has none).
ChecksCachedToken(c) ==
    /\ Starts(c) /\ call'[c].op # "authenticate"
    /\ ~(call'[c].validate /\ ~AgentValid(AgentOf(call'[c].agent)))
    /\ apiKey = NoKey /\ accessToken # NoToken /\ Truthy(tokenExpiresAt)
\* The step is the return of a credential check of caller c in OAuth mode.
CheckReturns(c) == call[c].pc # "authed" /\ call'[c].pc = "authed" /\ apiKey = NoKey
\* What is left, after the step, of the lifetime of the token the client
\* holds: the expiry is the end of the lifetime less the margin.
Remaining == tokenExpiresAt' + RefreshMargin - now'

\* C23 as stated: a token granted at time t with expires_in = E > 0 gets
\* tokenExpiresAt = t + E - 60; the credential check on a cached token
\* refreshes exactly when now >= tokenExpiresAt; and a credential check in
\* OAuth mode never returns with a token that has fewer than 60 seconds of
\* its lifetime left.
C23_SixtySecondsAlwaysLeft ==
    [][\A c \in Callers :
          /\ TokenGranted(c)
             => /\ accessToken' = call[c].treq
                /\ tokenExpiresAt' = now + call'[c].tans.expires_in - RefreshMargin
          /\ ChecksCachedToken(c)
             => (call'[c].pc = "awaitToken" <=> now >= tokenExpiresAt)
          /\ CheckReturns(c)
             => accessToken' # NoToken /\ Remaining >= RefreshMargin]_vars

\* C23 amended: the same expiry and the same refresh rule; a credential check
\* in OAuth mode returns with a token that has at least 60 seconds of its
\* lifetime left, unless the token was granted to this very check with an
\* expires_in below 60, in which case the request goes out with that token and
\* the expires_in seconds it has.
C23_ExpiryLessMargin ==
    [][\A c \in Callers :
          /\ TokenGranted(c)
             => /\ accessToken' = call[c].treq
                /\ tokenExpiresAt' = now + call'[c].tans.expires_in - RefreshMargin
          /\ ChecksCachedToken(c)
             => (call'[c].pc = "awaitToken" <=> now >= tokenExpiresAt)
          /\ CheckReturns(c)
             => /\ accessToken' # NoToken
                /\ IF TokenGranted(c) /\ call'[c].tans.expires_in < RefreshMargin
                   THEN Remaining = call'[c].tans.expires_in
                   ELSE Remaining >= RefreshMargin
          /\ (call[c].pc = "authed" /\ call'[c].pc = "awaitResp" /\ apiKey = NoKey)
             => call'[c].reqs[Len(call'[c].reqs)].cred = Cred("token", NoKey, accessToken)]_vars

\* C23 witness: the token granted at StartNow with expires_in = 1860 expires
\* at StartNow + 1800; at that very second getHealth's credential check
\* refreshes, and its token request is in flight.
C23_Witness ==
    \E c \in Callers :
        /\ call[c].op = "getHealth" /\ call[c].pc = "awaitToken"
        /\ apiKey = NoKey /\ accessToken # NoToken
        /\ tokenExpiresAt = StartNow + 1860 - RefreshMargin
        /\ now = tokenExpiresAt

\* ---------------------------------------------------------------- C24
\* The answer is a token without expires_in.
WithoutExpiry(answer) ==
    answer.kind = "json" /\ answer.hasToken /\ ~Truthy(answer.expires_in)

\* C24: a token that came without expires_in does not expire: once an
\* operation has been given one, none of its later credential checks sends
\* another token request, however much time has passed.
C24_NoExpiresInNeverRefreshes ==
    \A c \in Callers :
        (call[c].op # "authenticate" /\ WithoutExpiry(call[c].tans))
        => call[c].pc # "awaitToken"

\* ---------------------------------------------------------------- C25
\* What request() threw for the last answer of the call.
Thrown(rec) ==
    LET last == LastResponse(rec) IN
    IF last.status = 0 THEN transportError(last.body) ELSE handleResponse(last, rec.ep)

\* C25: validateApiKey turns only an AuthenticationError into null and
\* revokeApiKey only a NotFoundError into false; any other failure of their
\* request (5xx, 422, 429, a transport error, the timeout) reaches the caller
\* as the taxonomy error it is.
C25_OnlyExpectedAbsenceSwallowed ==
    \A c \in Callers :
        (Answered(call[c]) /\ ~IsOk(LastResponse(call[c]).status))
        => /\ (call[c].op = "validateApiKey"
               /\ Thrown(call[c]).kind # "AuthenticationError")
              => call[c].result = Thrown(call[c])
           /\ (call[c].op = "revokeApiKey"
               /\ Thrown(call[c]).kind # "NotFoundError")
              => call[c].result = Thrown(call[c])

\* ---------------------------------------------------------------- C26
\* The statuses with an error class of their own.
SpecializedStatuses == {401, 403, 404, 422}
\* The error body is a JSON document with a detail field.
HasDetail(resp) == resp.json /\ resp.body = "detail"
\* What the message of an error tells: the status line or the server's detail.
Carries(err) == IF err.msg \in {"status", "detail"} THEN {err.msg} ELSE {}

\* C26: an answer with an error status that has no error class of its own
\* raises the base error and no specialization; the error carries the HTTP
\* status, and the server's detail too whenever the body is JSON with a
\* detail field.
C26_BaseErrorCarriesStatusAndDetail ==
    \A c \in Callers :
        (/\ Answered(call[c])
         /\ call[c].op \notin {"validateApiKey", "revokeApiKey"}
         /\ LastResponse(call[c]).status \in ErrorStatuses \ SpecializedStatuses)
        => /\ call[c].result.kind = "A2AError"
           /\ "status" \in Carries(call[c].result)
           /\ HasDetail(LastResponse(call[c])) => "detail" \in Carries(call[c].result)

\* ---------------------------------------------------------------- C27
\* The step ends caller c's generateApiKeyAndAuthenticate.
EndsKeyGeneration(c) ==
    /\ call'[c].op = "generateApiKeyAndAuthenticate"
    /\ call[c].pc # "done" /\ call'[c].pc = "done"

\* C27: a successful generateApiKeyAndAuthenticate leaves the client with the
\* api_key of the server's answer; from then on every request carries that
\* key and no token request is sent; a failed one propagates its error and
\* leaves apiKey, accessToken and tokenExpiresAt as they were.
C27_GeneratedKeyInstalled ==
    [][\A c \in Callers :
          /\ (/\ EndsKeyGeneration(c) /\ call'[c].result.kind = "value"
              /\ LastResponse(call'[c]).body = "apiKey")
             => apiKey' = GeneratedKey
          /\ (EndsKeyGeneration(c) /\ call'[c].result.kind # "value")
             => /\ IsA2AError(call'[c].result.kind)
                /\ authState' = authState
          /\ apiKey = GeneratedKey
             => /\ tokenRequests' = tokenRequests
                /\ (call[c].pc = "authed" /\ call'[c].pc = "awaitResp")
                   => call'[c].reqs[Len(call'[c].reqs)].cred
                        = Cred("apiKey", GeneratedKey, NoToken)]_vars

\* ---------------------------------------------------------------- C28
\* The step is an answer to caller c's token request that makes authenticate()
\* fail: the fetch rejected, a status that is not 2xx, a body that is no
\* document, or a document without access_token.
AuthenticateFails(c) ==
    /\ call[c].pc = "awaitToken" /\ call'[c].pc # "awaitToken"
    /\ call'[c].tans.kind # "json" \/ ~call'[c].tans.hasToken

\* C28: an authenticate() that fails leaves accessToken and tokenExpiresAt as
\* they were before the call: a cached token is neither cleared nor replaced
\* and its expiry stays.
C28_FailedAuthenticateKeepsCache ==
    [][\A c \in Callers :
          AuthenticateFails(c)
          => accessToken' = accessToken /\ tokenExpiresAt' = tokenExpiresAt]_vars

\* ---------------------------------------------------------------- C29
\* The step handles the answer to caller c's request, or its failure.
ResponseHandled(c) == call[c].pc = "awaitResp" /\ call'[c].pc # "awaitResp"
\* The step handles the 2xx answer that completes generateApiKeyAndAuthenticate.
InstallsKey(c) ==
    /\ ResponseHandled(c)
    /\ call'[c].op = "generateApiKeyAndAuthenticate"
    /\ call'[c].result.kind = "value"

\* C29 as stated: after any answer from an endpoint other than the token
\* endpoint, apiKey, accessToken and tokenExpiresAt are what they were; a
\* credential check made before tokenExpiresAt reuses the cached token
\* without a token request.
C29_ResponsesNeverTouchAuthState ==
    [][\A c \in Callers :
          /\ ResponseHandled(c) => authState' = authState
          /\ (ChecksCachedToken(c) /\ now < tokenExpiresAt)
             => /\ call'[c].pc = "authed"
                /\ tokenRequests' = tokenRequests
                /\ authState' = authState]_vars

\* C29 amended: handling an answer leaves accessToken and tokenExpiresAt as
\* they were, whatever the status, and apiKey too, except that
\* generateApiKeyAndAuthenticate, after the 2xx answer to its request,
\* installs the api_key of that answer; a credential check made before
\* tokenExpiresAt reuses the cached token without a token request.
C29_OnlyKeyGenerationSetsKey ==
    [][\A c \in Callers :
          /\ ResponseHandled(c)
             => /\ accessToken' = accessToken /\ tokenExpiresAt' = tokenExpiresAt
                /\ apiKey' = IF InstallsKey(c)
                             THEN (IF LastResponse(call'[c]).body = "apiKey"
                                   THEN GeneratedKey ELSE NoKey)
                             ELSE apiKey
          /\ (ChecksCachedToken(c) /\ now < tokenExpiresAt)
             => /\ call'[c].pc = "authed"
                /\ tokenRequests' = tokenRequests
                /\ authState' = authState]_vars

\* C29 witness: getHealth sent the cached token and was answered 401; the
\* client still holds that token, which has not expired.
C29_Witness ==
    \E c \in Callers :
        /\ call[c].op = "getHealth" /\ Answered(call[c])
        /\ LastResponse(call[c]).status = 401
        /\ call[c].toks = 0
        /\ call[c].reqs[1].cred.kind = "token"
        /\ apiKey = NoKey /\ accessToken = call[c].reqs[1].cred.token
        /\ Truthy(tokenExpiresAt) /\ now < tokenExpiresAt

\* ---------------------------------------------------------------- C30
\* C30: when the POST of publishAgent was answered with an agentId and the GET
\* that follows fails, publishAgent fails with the GET's error, an error of
\* the taxonomy, and returns no Agent; the call has sent the POST once, then
\* the GET, and nothing else; when the POST itself fails, the call ends with
\* the POST's error and no GET is sent.
C30_GetFailureFailsPublish ==
    \A c \in Callers :
        LET rec == call[c] IN
        (rec.op = "publishAgent" /\ Len(rec.resps) >= 1)
        => /\ Failed(rec.resps[1])
              => /\ rec.pc = "done" /\ Len(rec.reqs) = 1
                 /\ rec.reqs[1].ep = PublishRequest
                 /\ rec.result = Thrown(rec)
           /\ (Len(rec.resps) = 2 /\ Failed(rec.resps[2]))
              => /\ rec.pc = "done" /\ PublishAnsweredWithAgentId(rec)
                 /\ Len(rec.reqs) = 2
                 /\ rec.reqs[1].ep = PublishRequest /\ rec.reqs[2].ep = GetPublished
                 /\ rec.result = Thrown(rec)
                 /\ IsA2AError(rec.result.kind)

\* C30 witness: the POST was answered with an agentId, the GET with 404, and
\* publishAgent failed with the NotFoundError after those two requests.
C30_Witness ==
    \E c \in Callers :
        /\ call[c].op = "publishAgent" /\ call[c].pc = "done"
        /\ Len(call[c].resps) = 2
        /\ call[c].resps[1] = Response(200, TRUE, "agentId")
        /\ call[c].resps[2].status = 404
        /\ Len(call[c].reqs) = 2
        /\ call[c].result.kind = "NotFoundError"

====
